---- MODULE Spec2Model ----
(***************************************************************************)
(* Model of the driver_modem connection engine:                            *)
(*   - tcp_connection (src/src/tcp_connection.cpp): role/status state      *)
(*     machine, asynchronous accept / connect / read completions;          *)
(*   - udp_connection (src/src/udp_connection.cpp): receive loop, transmit;*)
(*   - driver: the two keyed collections and the callback fan-out;         *)
(*   - ros_node (src/src/ros_node.cpp): the service adapter, its topic     *)
(*     maps and the latched active_connections message.                    *)
(*                                                                         *)
(* An asynchronous operation of a connection is "waiting" while the        *)
(* reactor holds it, is queued on the io_service once the transport has    *)
(* performed it, and is "none" after the loop has run its handler.         *)
(* Closing a socket turns every waiting operation on it into a queued      *)
(* "operation_aborted" completion and leaves an already queued completion  *)
(* as it is.                                                               *)
(***************************************************************************)
EXTENDS Integers, Sequences, FiniteSets, TLC

\* ------------------------------------------------------------------ bounds
\* At most this many connection objects are alive at once (held by the driver
\* or kept alive by a queued handler); an add that would exceed it is not taken.
MaxAlive == 2

\* The local ports the services are called with: one port under Spec.
Ports == {8000, 9000}
OnePort == {8000}

\* ------------------------------------------------------- enumerations
\* tcp_connection::status (tcp_connection.h:33-38)
status == {"DISCONNECTED", "CONNECTED", "PENDING"}
\* tcp_connection::role (tcp_connection.h:24-29)
role == {"UNASSIGNED", "SERVER", "CLIENT"}
\* driver_modem::protocol
protocol == {"TCP", "UDP"}

\* Results a completion can carry (boost::system::error_code).
AcceptResults == {"success", "error", "operation_aborted"}
ConnectResults == {"success", "error", "operation_aborted"}
ReadResults == {"success", "eof", "connection_reset", "connection_aborted",
                "other_error", "operation_aborted"}
UdpRxResults == {"success", "other_error", "operation_aborted"}
\* A queued completion of a connect or a read is "completed" when the transport
\* performed it (its error code is read by nobody before the handler runs, so
\* it is drawn when the handler runs) and "operation_aborted" when a close
\* cancelled it.  An accept and a datagram receive change the object when
\* they are performed, so their result is kept with the queued completion.
Queued == {"completed", "operation_aborted"}
\* Results of the synchronous socket.send in tcp_connection::tx, and of the
\* send_to in udp_connection::tx.
SendResults == {"success", "broken_pipe", "other_error"}
UdpSendResults == {"success", "other_error"}
\* Where the synchronous socket set-up of a start can fail ("none": nowhere).
ServerSetupFailures == {"none", "open", "bind", "listen"}
ClientSetupFailures == {"none", "open", "bind"}
\* Whether the constructor of a udp socket (open and bind) fails.
UdpSetupFailures == {"none", "bind"}

\* Addresses: two resolvable remote hosts and one third-party datagram sender.
RemoteHosts == {"host_a", "host_b"}
Addresses == RemoteHosts \cup {"host_x"}
HostNames == RemoteHosts \cup {"unresolvable"}

\* ------------------------------------------------------------- variables
VARIABLES
    m_tcp_connections,  \* driver: local port -> tcp_connection (NoTcp: no entry)
    m_udp_connections,  \* driver: local port -> udp_connection (NoUdp: no entry)
    tcp_detached,       \* tcp_connection objects out of the driver's map that a
                        \* handler bound on the io_service still keeps alive
    udp_detached,       \* the same for udp_connection objects
    m_remote_ip,        \* driver: the remote address of all connections
    m_tcp_rx,           \* ros_node: ports with a tcp/<port>/rx publisher
    m_tcp_tx,           \* ros_node: ports with a tcp/<port>/tx service
    m_udp_rx,           \* ros_node: ports with a udp/<port>/rx publisher
    m_udp_tx,           \* ros_node: ports with a udp/<port>/tx subscriber
    published,          \* ros_node: the latched active_connections message
    last,               \* the operation or handler that ran last: its inputs, its
                        \* result, the object it acted on before and after
    evts,               \* the callbacks the connections raised during that step
    threads             \* where the thread of the ROS callbacks (ros) and the
                        \* driver's loop thread (loop) stand inside an operation
                        \* that is followed statement by statement

vars == <<m_tcp_connections, m_udp_connections, tcp_detached, udp_detached,
          m_remote_ip, m_tcp_rx, m_tcp_tx, m_udp_rx, m_udp_tx, published,
          last, evts, threads>>

\* The program's own state (everything but the record of the last step).
prog == <<m_tcp_connections, m_udp_connections, tcp_detached, udp_detached,
          m_remote_ip, m_tcp_rx, m_tcp_tx, m_udp_rx, m_udp_tx, published>>

\* ------------------------------------------------- tcp_connection object
\* tcp_connection::tcp_connection: sockets closed, role UNASSIGNED, status
\* DISCONNECTED, no callback attached.  closed / announced are history fields:
\* disconnect() was called since the last start; the connected callback was
\* raised since the last start.
new_tcp_connection(port) ==
    [live |-> TRUE, m_local_port |-> port,
     m_status |-> "DISCONNECTED", m_role |-> "UNASSIGNED",
     socket_open |-> FALSE, acceptor_open |-> FALSE,
     accept_op |-> "none", connect_op |-> "none", read_op |-> "none",
     m_connected_callback |-> FALSE, m_disconnected_callback |-> FALSE,
     m_rx_callback |-> FALSE,
     closed |-> FALSE, announced |-> FALSE]

\* No object (no entry in a map; an object that was destroyed).
NoTcp == [new_tcp_connection(0) EXCEPT !.live = FALSE]

\* The three attach_*_callback methods, as the driver calls them on a new object.
attach_callbacks(c) ==
    [c EXCEPT !.m_connected_callback = TRUE,
              !.m_disconnected_callback = TRUE,
              !.m_rx_callback = TRUE]

\* A callback raised by a connection: what it is, and the port it carries
\* (by, the raising object as it was, is kept for the properties only).
Event(type, proto, port, by) ==
    [type |-> type, protocol |-> proto, port |-> port, by |-> by]

\* Result of a method: the object afterwards, the callbacks raised, the return
\* value ("true", "false", "void", or "threw" when an exception leaves it).
Result(c, ev, ret) == [c |-> c, ev |-> ev, ret |-> ret]

\* Variant: an update_status that signals disconnected whether or not the
\* status changes.
update_status_resignalling(c, new_status, signal) ==
    IF new_status = "DISCONNECTED"
    THEN Result([c EXCEPT !.m_status = new_status, !.m_role = "UNASSIGNED"],
                IF signal /\ c.m_disconnected_callback
                THEN <<Event("disconnected", "TCP", c.m_local_port, c)>>
                ELSE <<>>,
                "void")
    ELSE IF new_status # c.m_status
    THEN LET c1 == [c EXCEPT !.m_status = new_status] IN
         IF new_status = "CONNECTED"
         THEN Result([c1 EXCEPT !.announced =
                                   @ \/ (signal /\ c.m_connected_callback)],
                     IF signal /\ c.m_connected_callback
                     THEN <<Event("connected", "TCP", c.m_local_port, c)>>
                     ELSE <<>>,
                     "void")
         ELSE Result(c1, <<>>, "void")
    ELSE Result(c, <<>>, "void")

\* Variant: an update_status that leaves the role when the status becomes
\* disconnected.
update_status_keeping_role(c, new_status, signal) ==
    IF new_status # c.m_status
    THEN LET c1 == [c EXCEPT !.m_status = new_status] IN
         CASE new_status = "DISCONNECTED" ->
                Result(c1,
                       IF signal /\ c.m_disconnected_callback
                       THEN <<Event("disconnected", "TCP", c.m_local_port, c)>>
                       ELSE <<>>,
                       "void")
           [] new_status = "CONNECTED" ->
                Result([c1 EXCEPT !.announced =
                                     @ \/ (signal /\ c.m_connected_callback)],
                       IF signal /\ c.m_connected_callback
                       THEN <<Event("connected", "TCP", c.m_local_port, c)>>
                       ELSE <<>>,
                       "void")
           [] new_status = "PENDING" -> Result(c1, <<>>, "void")
    ELSE Result(c, <<>>, "void")

\* tcp_connection::update_status
update_status(c, new_status, signal) ==
    IF new_status # c.m_status
    THEN LET c1 == [c EXCEPT !.m_status = new_status] IN
         CASE new_status = "DISCONNECTED" ->
                Result([c1 EXCEPT !.m_role = "UNASSIGNED"],
                       IF signal /\ c.m_disconnected_callback
                       THEN <<Event("disconnected", "TCP", c.m_local_port, c)>>
                       ELSE <<>>,
                       "void")
           [] new_status = "CONNECTED" ->
                Result([c1 EXCEPT !.announced =
                                     @ \/ (signal /\ c.m_connected_callback)],
                       IF signal /\ c.m_connected_callback
                       THEN <<Event("connected", "TCP", c.m_local_port, c)>>
                       ELSE <<>>,
                       "void")
           [] new_status = "PENDING" -> Result(c1, <<>>, "void")
    ELSE Result(c, <<>>, "void")

\* tcp_connection::async_accept: an accept whose peer socket is already open
\* completes at once with an error (already_open); otherwise it waits.  One
\* issued while an accept is still outstanding leaves two of them
\* ("overlapping").
async_accept(c) ==
    [c EXCEPT !.accept_op = IF @ # "none" THEN "overlapping"
                            ELSE IF c.socket_open THEN "error" ELSE "waiting"]

\* tcp_connection::async_rx.  A read issued while a read is still outstanding
\* leaves two of them ("overlapping").
async_rx(c) ==
    [c EXCEPT !.read_op = IF @ = "none" THEN "waiting" ELSE "overlapping"]

\* Variant: a server start that issues no accept.
start_server_idle(c, fail) ==
    IF c.m_status = "DISCONNECTED" /\ ~c.acceptor_open /\ fail = "none"
    THEN LET c2 == [c EXCEPT !.acceptor_open = TRUE, !.m_role = "SERVER",
                             !.closed = FALSE, !.announced = FALSE]
             r == update_status(c2, "PENDING", TRUE)
         IN Result(r.c, r.ev, "true")
    ELSE Result(c, <<>>, IF c.m_status = "DISCONNECTED" THEN "threw" ELSE "false")

\* tcp_connection::start_server.  fail: where the acceptor set-up fails, if it
\* does; opening an acceptor that is already open fails too.  Nothing catches
\* the exception of open / set_option / bind / listen.
start_server(c, fail) ==
    IF c.m_status = "DISCONNECTED"
    THEN IF c.acceptor_open \/ fail = "open"
         THEN Result(c, <<>>, "threw")
         ELSE IF fail # "none"
         THEN Result([c EXCEPT !.acceptor_open = TRUE], <<>>, "threw")
         ELSE LET c1 == async_accept([c EXCEPT !.acceptor_open = TRUE])
                  c2 == [c1 EXCEPT !.m_role = "SERVER",
                                   !.closed = FALSE, !.announced = FALSE]
                  r == update_status(c2, "PENDING", TRUE)
              IN Result(r.c, r.ev, "true")
    ELSE Result(c, <<>>, "false")

\* Variant: a client start that does not look at the status.
start_client_unguarded(c, fail) ==
    IF c.socket_open \/ fail = "open"
    THEN LET r == update_status(c, "DISCONNECTED", TRUE)
         IN Result(r.c, r.ev, "false")
    ELSE IF fail # "none"
    THEN LET r == update_status([c EXCEPT !.socket_open = TRUE],
                                "DISCONNECTED", TRUE)
         IN Result(r.c, r.ev, "false")
    ELSE LET c1 == [c EXCEPT !.socket_open = TRUE, !.connect_op = "waiting",
                             !.m_role = "CLIENT",
                             !.closed = FALSE, !.announced = FALSE]
             r == update_status(c1, "PENDING", TRUE)
         IN Result(r.c, r.ev, "true")

\* tcp_connection::start_client.  Every exception of the set-up is caught:
\* update_status(DISCONNECTED) and return false.
start_client(c, fail) ==
    IF c.m_status = "DISCONNECTED"
    THEN IF c.socket_open \/ fail = "open"
         THEN LET r == update_status(c, "DISCONNECTED", TRUE)
              IN Result(r.c, r.ev, "false")
         ELSE IF fail # "none"
         THEN LET r == update_status([c EXCEPT !.socket_open = TRUE],
                                     "DISCONNECTED", TRUE)
              IN Result(r.c, r.ev, "false")
         ELSE LET c1 == [c EXCEPT !.socket_open = TRUE, !.connect_op = "waiting",
                                  !.m_role = "CLIENT",
                                  !.closed = FALSE, !.announced = FALSE]
                  r == update_status(c1, "PENDING", TRUE)
              IN Result(r.c, r.ev, "true")
    ELSE Result(c, <<>>, "false")

\* Closing a socket cancels the operations waiting on it.
Cancel(op) == IF op = "waiting" THEN "operation_aborted" ELSE op

\* Variant: a disconnect that leaves the acceptor listening.
disconnect_leaving_acceptor(c) ==
    LET c1 == [c EXCEPT !.socket_open = FALSE,
                        !.connect_op = Cancel(@),
                        !.read_op = Cancel(@),
                        !.closed = TRUE]
        r == update_status(c1, "DISCONNECTED", FALSE)
    IN Result(r.c, r.ev, "void")

\* Variant: a disconnect that raises the signal.
disconnect_signalling(c) ==
    LET c1 == [c EXCEPT !.acceptor_open = FALSE,
                        !.accept_op = Cancel(@),
                        !.socket_open = FALSE,
                        !.connect_op = Cancel(@),
                        !.read_op = Cancel(@),
                        !.closed = TRUE]
        r == update_status(c1, "DISCONNECTED", TRUE)
    IN Result(r.c, r.ev, "void")

\* tcp_connection::disconnect
disconnect(c) ==
    LET c1 == [c EXCEPT !.acceptor_open = FALSE,
                        !.accept_op = Cancel(@),
                        !.socket_open = FALSE,
                        !.connect_op = Cancel(@),
                        !.read_op = Cancel(@),
                        !.closed = TRUE]
        r == update_status(c1, "DISCONNECTED", FALSE)
    IN Result(r.c, r.ev, "void")

\* Variant: a transmit that does not signal the broken pipe it detects.
tx_silent(c, error) ==
    IF c.m_status = "CONNECTED"
    THEN IF error = "broken_pipe"
         THEN LET r == update_status(c, "DISCONNECTED", FALSE)
              IN Result(r.c, r.ev, "true")
         ELSE Result(c, <<>>, "true")
    ELSE Result(c, <<>>, "false")

\* Variant: a transmit that sends on every started connection.
tx_unguarded(c, error) ==
    IF c.m_status # "DISCONNECTED"
    THEN IF error = "broken_pipe"
         THEN LET r == update_status(c, "DISCONNECTED", TRUE)
              IN Result(r.c, r.ev, "true")
         ELSE Result(c, <<>>, "true")
    ELSE Result(c, <<>>, "false")

\* Variant: a transmit that treats a broken pipe as any other send error.
tx_ignoring_broken_pipe(c, error) ==
    IF c.m_status = "CONNECTED"
    THEN Result(c, <<>>, "true")
    ELSE Result(c, <<>>, "false")

\* tcp_connection::tx.  error: the error_code the synchronous send reports.
tx(c, error) ==
    IF c.m_status = "CONNECTED"
    THEN IF error = "broken_pipe"
         THEN LET r == update_status(c, "DISCONNECTED", TRUE)
              IN Result(r.c, r.ev, "true")
         ELSE Result(c, <<>>, "true")
    ELSE Result(c, <<>>, "false")

\* Variant: an accept handler that does not look at the socket.
accept_callback_unchecked(c, error) ==
    IF error = "success"
    THEN LET r == update_status(c, "CONNECTED", TRUE)
         IN Result(async_rx(r.c), r.ev, "void")
    ELSE Result(async_accept(c), <<>>, "void")

\* tcp_connection::accept_callback
accept_callback(c, error) ==
    IF c.socket_open
    THEN IF error = "success"
         THEN LET r == update_status(c, "CONNECTED", TRUE)
              IN Result(async_rx(r.c), r.ev, "void")
         ELSE Result(async_accept(c), <<>>, "void")
    ELSE Result(c, <<>>, "void")

\* Variant: a connect handler that does not look at the socket.
connect_callback_unchecked(c, error) ==
    IF error = "success"
    THEN LET r == update_status(c, "CONNECTED", TRUE)
         IN Result(async_rx(r.c), r.ev, "void")
    ELSE update_status(c, "DISCONNECTED", TRUE)

\* Variant: a connect handler that tries again after a failed attempt.
connect_callback_retrying(c, error) ==
    IF c.socket_open
    THEN IF error = "success"
         THEN LET r == update_status(c, "CONNECTED", TRUE)
              IN Result(async_rx(r.c), r.ev, "void")
         ELSE LET r == update_status(c, "DISCONNECTED", TRUE)
              IN Result([r.c EXCEPT !.connect_op = "waiting"], r.ev, "void")
    ELSE Result(c, <<>>, "void")

\* Variant: a connect handler that does not signal the new status.
connect_callback_silent(c, error) ==
    IF c.socket_open
    THEN IF error = "success"
         THEN LET r == update_status(c, "CONNECTED", FALSE)
              IN Result(async_rx(r.c), r.ev, "void")
         ELSE update_status(c, "DISCONNECTED", TRUE)
    ELSE Result(c, <<>>, "void")

\* tcp_connection::connect_callback
connect_callback(c, error) ==
    IF c.socket_open
    THEN IF error = "success"
         THEN LET r == update_status(c, "CONNECTED", TRUE)
              IN Result(async_rx(r.c), r.ev, "void")
         ELSE update_status(c, "DISCONNECTED", TRUE)
    ELSE Result(c, <<>>, "void")

\* Variant: a read handler that issues two reads after a delivery.
rx_callback_reading_twice(c, error) ==
    IF c.socket_open
    THEN IF error = "success"
         THEN Result(async_rx(async_rx(c)),
                     IF c.m_rx_callback
                     THEN <<Event("rx", "TCP", c.m_local_port, c)>>
                     ELSE <<>>,
                     "void")
         ELSE IF error \in {"eof", "connection_reset", "connection_aborted"}
         THEN update_status(c, "DISCONNECTED", TRUE)
         ELSE IF error # "operation_aborted"
         THEN Result(c, <<>>, "threw")
         ELSE Result(c, <<>>, "void")
    ELSE Result(c, <<>>, "void")

\* Variant: a read handler that takes every read error for a closed stream.
rx_callback_disconnecting_on_error(c, error) ==
    IF c.socket_open
    THEN IF error = "success"
         THEN Result(async_rx(c),
                     IF c.m_rx_callback
                     THEN <<Event("rx", "TCP", c.m_local_port, c)>>
                     ELSE <<>>,
                     "void")
         ELSE IF error # "operation_aborted"
         THEN update_status(c, "DISCONNECTED", TRUE)
         ELSE Result(c, <<>>, "void")
    ELSE Result(c, <<>>, "void")

\* Variant: a read handler that keeps reading after the peer closed.
rx_callback_rearming(c, error) ==
    IF c.socket_open
    THEN IF error = "success"
         THEN Result(async_rx(c),
                     IF c.m_rx_callback
                     THEN <<Event("rx", "TCP", c.m_local_port, c)>>
                     ELSE <<>>,
                     "void")
         ELSE IF error \in {"eof", "connection_reset", "connection_aborted"}
         THEN LET r == update_status(c, "DISCONNECTED", TRUE)
              IN Result(async_rx(r.c), r.ev, "void")
         ELSE IF error # "operation_aborted"
         THEN Result(c, <<>>, "threw")
         ELSE Result(c, <<>>, "void")
    ELSE Result(c, <<>>, "void")

\* Variant: a read handler of a listener that accepts the next peer after the
\* peer closed.
rx_callback_relistening(c, error) ==
    IF c.socket_open
    THEN IF error = "success"
         THEN Result(async_rx(c),
                     IF c.m_rx_callback
                     THEN <<Event("rx", "TCP", c.m_local_port, c)>>
                     ELSE <<>>,
                     "void")
         ELSE IF error \in {"eof", "connection_reset", "connection_aborted"}
         THEN LET r == update_status(c, "DISCONNECTED", TRUE)
              IN Result(IF c.m_role = "SERVER"
                        THEN [r.c EXCEPT !.accept_op = "waiting"] ELSE r.c,
                        r.ev, "void")
         ELSE IF error # "operation_aborted"
         THEN Result(c, <<>>, "threw")
         ELSE Result(c, <<>>, "void")
    ELSE Result(c, <<>>, "void")

\* tcp_connection::rx_callback
rx_callback(c, error) ==
    IF c.socket_open
    THEN IF error = "success"
         THEN Result(async_rx(c),
                     IF c.m_rx_callback
                     THEN <<Event("rx", "TCP", c.m_local_port, c)>>
                     ELSE <<>>,
                     "void")
         ELSE IF error \in {"eof", "connection_reset", "connection_aborted"}
         THEN update_status(c, "DISCONNECTED", TRUE)
         ELSE IF error # "operation_aborted"
         THEN Result(c, <<>>, "threw")
         ELSE Result(c, <<>>, "void")
    ELSE Result(c, <<>>, "void")

\* ------------------------------------------------- udp_connection object
\* udp_connection::udp_connection: the socket is opened and bound by the
\* constructor; the remote endpoint is stored.
new_udp_connection(port, remote_endpoint) ==
    [live |-> TRUE, m_local_port |-> port,
     socket_open |-> TRUE, rx_op |-> "none",
     m_remote_endpoint |-> remote_endpoint, m_rx_callback |-> FALSE]

NoUdp ==
    [new_udp_connection(0, "host_a") EXCEPT !.live = FALSE, !.socket_open = FALSE]

\* udp_connection::attach_rx_callback
udp_attach_rx_callback(u) == [u EXCEPT !.m_rx_callback = TRUE]

\* udp_connection::async_rx: a receive issued on a closed socket completes at
\* once with an error (bad descriptor); one issued while another is still
\* outstanding leaves two of them ("overlapping").
udp_async_rx(u) ==
    [u EXCEPT !.rx_op = IF ~u.socket_open THEN "other_error"
                        ELSE IF @ = "none" THEN "waiting" ELSE "overlapping"]

\* udp_connection::connect
udp_connect(u) == udp_async_rx(u)

\* udp_connection::disconnect
udp_disconnect(u) == [u EXCEPT !.socket_open = FALSE, !.rx_op = Cancel(@)]

\* udp_connection::tx: the datagram goes to m_remote_endpoint; send_to throws
\* on a closed socket or a transport error.
udp_tx(u, error) ==
    IF u.socket_open /\ error = "success"
    THEN [ret |-> "void", target |-> u.m_remote_endpoint]
    ELSE [ret |-> "threw", target |-> "nowhere"]

\* Variant: a receive handler that goes on receiving after an error.
udp_rx_callback_resuming(u, error) ==
    IF error = "success" /\ u.m_rx_callback
    THEN IF u.socket_open
         THEN Result(udp_async_rx(u),
                     <<Event("rx", "UDP", u.m_local_port, u)>>, "void")
         ELSE Result(u, <<>>, "threw")
    ELSE IF error # "operation_aborted"
    THEN Result(udp_async_rx(u), <<>>, "void")
    ELSE Result(u, <<>>, "void")

\* Variant: a receive handler that issues two receives after a datagram.
udp_rx_callback_rearming_twice(u, error) ==
    IF error = "success" /\ u.m_rx_callback
    THEN IF u.socket_open
         THEN Result(udp_async_rx(udp_async_rx(u)),
                     <<Event("rx", "UDP", u.m_local_port, u)>>, "void")
         ELSE Result(u, <<>>, "threw")
    ELSE IF error # "operation_aborted"
    THEN Result(u, <<>>, "threw")
    ELSE Result(u, <<>>, "void")

\* Variant: a receive handler that takes the port from the stored endpoint,
\* so that it delivers a datagram whatever the state of the socket.
udp_rx_callback_delivering(u, error) ==
    IF error = "success" /\ u.m_rx_callback
    THEN Result(udp_async_rx(u),
                <<Event("rx", "UDP", u.m_local_port, u)>>, "void")
    ELSE IF error # "operation_aborted"
    THEN Result(u, <<>>, "threw")
    ELSE Result(u, <<>>, "void")

\* udp_connection::rx_callback.  The port handed to the callback is read with
\* m_socket.local_endpoint(), which throws on a closed socket: the exception
\* leaves the handler before the callback is raised.
udp_rx_callback(u, error) ==
    IF error = "success" /\ u.m_rx_callback
    THEN IF u.socket_open
         THEN Result(udp_async_rx(u),
                     <<Event("rx", "UDP", u.m_local_port, u)>>, "void")
         ELSE Result(u, <<>>, "threw")
    ELSE IF error # "operation_aborted"
    THEN Result(u, <<>>, "threw")
    ELSE Result(u, <<>>, "void")


\* ------------------------------------------------- the state as a record
\* Handlers are written as operators from the state to the state; an action
\* applies one to the current state and stores the outcome.
State ==
    [m_tcp_connections |-> m_tcp_connections,
     m_udp_connections |-> m_udp_connections,
     tcp_detached |-> tcp_detached, udp_detached |-> udp_detached,
     m_remote_ip |-> m_remote_ip,
     m_tcp_rx |-> m_tcp_rx, m_tcp_tx |-> m_tcp_tx,
     m_udp_rx |-> m_udp_rx, m_udp_tx |-> m_udp_tx,
     published |-> published]

\* Outcome of a driver or adapter operation: the state afterwards, the return
\* value, the callbacks raised on the way.
Outcome(s, ret, ev) == [s |-> s, ret |-> ret, ev |-> ev]

\* An object that still has an operation on the io_service is kept alive by
\* the handler bound to it (shared_from_this).
TcpHasOps(c) == c.accept_op # "none" \/ c.connect_op # "none" \/ c.read_op # "none"
UdpHasOps(u) == u.rx_op # "none"

\* ------------------------------------------------------------- ros_node
\* driver::p_pending_tcp_connections / p_active_tcp_connections /
\* p_active_udp_connections, as publish_active_connections reads them.
p_pending_tcp_connections(s) ==
    {p \in Ports : /\ s.m_tcp_connections[p].live
                   /\ s.m_tcp_connections[p].m_status = "PENDING"}
p_active_tcp_connections(s) ==
    {p \in Ports : /\ s.m_tcp_connections[p].live
                   /\ s.m_tcp_connections[p].m_status = "CONNECTED"}
p_active_udp_connections(s) ==
    {p \in Ports : s.m_udp_connections[p].live}

\* ros_node::publish_active_connections
publish_active_connections(s) ==
    [s EXCEPT !.published = [tcp_pending |-> p_pending_tcp_connections(s),
                             tcp_active |-> p_active_tcp_connections(s),
                             udp_active |-> p_active_udp_connections(s)]]

\* ros_node::add_connection_topics
add_connection_topics(s, type, port) ==
    IF type = "TCP"
    THEN [s EXCEPT !.m_tcp_rx = @ \cup {port}, !.m_tcp_tx = @ \cup {port}]
    ELSE [s EXCEPT !.m_udp_rx = @ \cup {port}, !.m_udp_tx = @ \cup {port}]

\* ros_node::remove_connection_topics(protocol, port)
remove_connection_topics(s, type, port) ==
    IF type = "TCP"
    THEN [s EXCEPT !.m_tcp_rx = @ \ {port}, !.m_tcp_tx = @ \ {port}]
    ELSE [s EXCEPT !.m_udp_rx = @ \ {port}, !.m_udp_tx = @ \ {port}]

\* ros_node::remove_connection_topics()
remove_all_connection_topics(s) ==
    [s EXCEPT !.m_tcp_rx = {}, !.m_tcp_tx = {}, !.m_udp_rx = {}, !.m_udp_tx = {}]

\* ros_node::callback_tcp_connected
callback_tcp_connected(s, port) ==
    publish_active_connections(add_connection_topics(s, "TCP", port))

\* ros_node::callback_tcp_disconnected
callback_tcp_disconnected(s, port) ==
    publish_active_connections(remove_connection_topics(s, "TCP", port))

\* ros_node::callback_rx: publishes the packet on the port's rx topic when the
\* topic exists; no state of the node changes.
callback_rx(s, type, port) == s

\* --------------------------------------------------------------- driver
\* Erasing an entry: the object leaves the map; it stays alive, detached,
\* while a handler on the io_service is bound to it.
EraseTcp(s, port) ==
    LET c == s.m_tcp_connections[port]
    IN [s EXCEPT !.m_tcp_connections[port] = NoTcp,
                 !.tcp_detached = IF c.live /\ TcpHasOps(c) THEN @ \cup {c} ELSE @]
EraseUdp(s, port) ==
    LET u == s.m_udp_connections[port]
    IN [s EXCEPT !.m_udp_connections[port] = NoUdp,
                 !.udp_detached = IF u.live /\ UdpHasOps(u) THEN @ \cup {u} ELSE @]

\* The driver's handlers of the connections' callbacks: each forwards to the
\* callback given at construction; a disconnect first erases the entry.
driver_callback_tcp_connected(s, port) == callback_tcp_connected(s, port)

driver_callback_tcp_disconnected(s, port) ==
    callback_tcp_disconnected(EraseTcp(s, port), port)

driver_callback_rx(s, type, port) == callback_rx(s, type, port)

\* The callbacks ev, raised by a connection, run through the driver in order.
RECURSIVE Dispatch(_, _)
Dispatch(s, ev) ==
    IF ev = <<>> THEN s
    ELSE LET e == Head(ev)
             s1 == CASE e.type = "connected" ->
                          driver_callback_tcp_connected(s, e.port)
                      [] e.type = "disconnected" ->
                          driver_callback_tcp_disconnected(s, e.port)
                      [] e.type = "rx" ->
                          driver_callback_rx(s, e.protocol, e.port)
         IN Dispatch(s1, Tail(ev))

\* Variant: an add that replaces the connection a port already has.
driver_add_tcp_connection_replacing(s, r, port, fail) ==
    LET c0 == attach_callbacks(new_tcp_connection(port))
        res == IF r = "SERVER" THEN start_server(c0, fail)
                               ELSE start_client(c0, fail)
    IN IF res.ret = "true"
       THEN Outcome(Dispatch([s EXCEPT !.m_tcp_connections[port] = res.c],
                             res.ev),
                    "true", res.ev)
       ELSE Outcome(Dispatch(s, res.ev), res.ret, res.ev)

\* driver::add_tcp_connection: a port already present is refused; otherwise a
\* connection is created, its callbacks attached and it is started; it is
\* inserted when the start returns true.  An exception of the start leaves
\* the call.
driver_add_tcp_connection(s, r, port, fail) ==
    IF s.m_tcp_connections[port].live
    THEN Outcome(s, "false", <<>>)
    ELSE LET c0 == attach_callbacks(new_tcp_connection(port))
             res == IF r = "SERVER" THEN start_server(c0, fail)
                                    ELSE start_client(c0, fail)
         IN IF res.ret = "true"
            THEN Outcome(Dispatch([s EXCEPT !.m_tcp_connections[port] = res.c],
                                  res.ev),
                         "true", res.ev)
            ELSE Outcome(Dispatch(s, res.ev), res.ret, res.ev)

\* driver::add_udp_connection.  fail: whether the bind of the new socket fails.
driver_add_udp_connection(s, port, fail) ==
    IF s.m_udp_connections[port].live \/ fail # "none"
    THEN Outcome(s, "false", <<>>)
    ELSE LET u == udp_connect(udp_attach_rx_callback(
                      new_udp_connection(port, s.m_remote_ip)))
         IN Outcome([s EXCEPT !.m_udp_connections[port] = u], "true", <<>>)

\* driver::remove_connection
driver_remove_connection(s, type, port) ==
    IF type = "TCP"
    THEN IF ~s.m_tcp_connections[port].live
         THEN Outcome(s, "false", <<>>)
         ELSE LET res == disconnect(s.m_tcp_connections[port])
              IN Outcome(EraseTcp(Dispatch(
                             [s EXCEPT !.m_tcp_connections[port] = res.c], res.ev),
                             port),
                         "true", res.ev)
    ELSE IF ~s.m_udp_connections[port].live
         THEN Outcome(s, "false", <<>>)
         ELSE Outcome(EraseUdp([s EXCEPT !.m_udp_connections[port] =
                                             udp_disconnect(@)], port),
                      "true", <<>>)

\* driver::remove_all_connections: remove_connection for every entry.
RECURSIVE RemoveEach(_, _, _)
RemoveEach(o, type, ports) ==
    IF ports = {} THEN o
    ELSE LET p == CHOOSE q \in ports : \A q2 \in ports : q <= q2
             n == driver_remove_connection(o.s, type, p)
         IN RemoveEach(Outcome(n.s, "void", o.ev \o n.ev), type, ports \ {p})

driver_remove_all_connections(s) ==
    LET t == RemoveEach(Outcome(s, "void", <<>>), "TCP",
                        {p \in Ports : s.m_tcp_connections[p].live})
    IN RemoveEach(t, "UDP", {p \in Ports : t.s.m_udp_connections[p].live})

\* driver::set_remote_host
driver_set_remote_host(s, remote_host) ==
    IF remote_host \notin RemoteHosts
    THEN Outcome(s, "false", <<>>)
    ELSE LET o == driver_remove_all_connections(s)
         IN Outcome([o.s EXCEPT !.m_remote_ip = remote_host], "true", o.ev)

\* driver::tx.  error: what the transport reports for the send.
driver_tx(s, type, port, error) ==
    IF type = "TCP"
    THEN IF ~s.m_tcp_connections[port].live
         THEN Outcome(s, "false", <<>>)
         ELSE LET res == tx(s.m_tcp_connections[port], error)
              IN Outcome(Dispatch([s EXCEPT !.m_tcp_connections[port] = res.c],
                                  res.ev),
                         res.ret, res.ev)
    ELSE IF ~s.m_udp_connections[port].live
         THEN Outcome(s, "false", <<>>)
         ELSE LET res == udp_tx(s.m_udp_connections[port], error)
              IN Outcome(s, IF res.ret = "threw" THEN "threw" ELSE "true", <<>>)

\* ----------------------------------------------- ros_node: operations
\* Variant: a set_remote_host that does not publish the lists.
set_remote_host_unpublished(s, remote_host) ==
    LET o == driver_set_remote_host(s, remote_host)
    IN IF o.ret = "true"
       THEN Outcome(remove_all_connection_topics(o.s), "true", o.ev)
       ELSE Outcome(o.s, "false", o.ev)

\* Variant: a set_remote_host that removes the topics whatever the driver says.
set_remote_host_clearing(s, remote_host) ==
    LET o == driver_set_remote_host(s, remote_host)
    IN Outcome(publish_active_connections(remove_all_connection_topics(o.s)),
               o.ret, o.ev)

\* ros_node::set_remote_host
set_remote_host(s, remote_host) ==
    LET o == driver_set_remote_host(s, remote_host)
    IN IF o.ret = "true"
       THEN Outcome(publish_active_connections(remove_all_connection_topics(o.s)),
                    "true", o.ev)
       ELSE Outcome(o.s, "false", o.ev)

\* Variant: an add_tcp_connection that creates the port's topics at once.
add_tcp_connection_with_topics(s, r, port, fail) ==
    LET o == driver_add_tcp_connection(s, r, port, fail)
    IN IF o.ret = "true"
       THEN Outcome(publish_active_connections(
                        add_connection_topics(o.s, "TCP", port)),
                    "true", o.ev)
       ELSE o

\* ros_node::add_tcp_connection (publish_connections = true, as the service
\* calls it).  An exception of the driver call leaves the method.
add_tcp_connection(s, r, port, fail) ==
    LET o == driver_add_tcp_connection(s, r, port, fail)
    IN IF o.ret = "true"
       THEN Outcome(publish_active_connections(o.s), "true", o.ev)
       ELSE o

\* ros_node::add_udp_connection
add_udp_connection(s, port, fail) ==
    LET o == driver_add_udp_connection(s, port, fail)
    IN IF o.ret = "true"
       THEN Outcome(publish_active_connections(
                        add_connection_topics(o.s, "UDP", port)),
                    "true", o.ev)
       ELSE o

\* Variant: a remove_connection that reports success whatever the driver says.
remove_connection_reporting_success(s, type, port) ==
    LET o == driver_remove_connection(s, type, port)
    IN Outcome(publish_active_connections(
                   remove_connection_topics(o.s, type, port)),
               "true", o.ev)

\* ros_node::remove_connection
remove_connection(s, type, port) ==
    LET o == driver_remove_connection(s, type, port)
    IN IF o.ret = "true"
       THEN Outcome(publish_active_connections(
                        remove_connection_topics(o.s, type, port)),
                    "true", o.ev)
       ELSE o

\* ros_node::remove_all_connections
remove_all_connections(s) ==
    LET o == driver_remove_all_connections(remove_all_connection_topics(s))
    IN Outcome(publish_active_connections(o.s), "void", o.ev)

\* ros_node::service_tcp_tx and ros_node::callback_udp_tx: both hand the
\* packet to driver::tx.
service_tx(s, type, port, error) == driver_tx(s, type, port, error)

\* ------------------------------------------------------- the io_service
\* Number of connection objects alive.
Alive(s) ==
    Cardinality({p \in Ports : s.m_tcp_connections[p].live})
    + Cardinality({p \in Ports : s.m_udp_connections[p].live})
    + Cardinality(s.tcp_detached) + Cardinality(s.udp_detached)

\* A detached object whose last handler has run is destroyed.
Reclaim(s) ==
    [s EXCEPT !.tcp_detached = {c \in @ : TcpHasOps(c)},
              !.udp_detached = {u \in @ : UdpHasOps(u)}]

\* A connection object on the loop: the one the driver holds for a port, or a
\* detached one.
TcpRefs == {<<"map", p>> : p \in {q \in Ports : m_tcp_connections[q].live}}
           \cup {<<"detached", c>> : c \in tcp_detached}
UdpRefs == {<<"map", p>> : p \in {q \in Ports : m_udp_connections[q].live}}
           \cup {<<"detached", u>> : u \in udp_detached}
TcpOf(ref) == IF ref[1] = "map" THEN m_tcp_connections[ref[2]] ELSE ref[2]
UdpOf(ref) == IF ref[1] = "map" THEN m_udp_connections[ref[2]] ELSE ref[2]
PutTcp(s, ref, c) ==
    IF ref[1] = "map" THEN [s EXCEPT !.m_tcp_connections[ref[2]] = c]
    ELSE [s EXCEPT !.tcp_detached = (@ \ {ref[2]}) \cup {c}]
PutUdp(s, ref, u) ==
    IF ref[1] = "map" THEN [s EXCEPT !.m_udp_connections[ref[2]] = u]
    ELSE [s EXCEPT !.udp_detached = (@ \ {ref[2]}) \cup {u}]

\* The record of a step: the operation, its inputs, its return value, and the
\* object it acted on before (pre) and after (post) the step; in says whether
\* the driver's map held that object.
Last(op, type, port, arg, ret, in, pre, post) ==
    [op |-> op, protocol |-> type, port |-> port, arg |-> arg, ret |-> ret,
     in |-> in, pre |-> pre, post |-> post]

\* A thread between two operations, and a thread inside one: at names the
\* place, op / port / arg the operation, ev the callbacks still to be handled.
Idle == [at |-> "idle", op |-> "none", port |-> 0, arg |-> "none", ev |-> <<>>]
Inside(at, op, port, arg, ev) ==
    [at |-> at, op |-> op, port |-> port, arg |-> arg, ev |-> ev]

\* A step ends: the state is stored, the threads stand at t.
CommitAt(o, l, t) ==
    LET s == Reclaim(o.s) IN
    /\ m_tcp_connections' = s.m_tcp_connections
    /\ m_udp_connections' = s.m_udp_connections
    /\ tcp_detached' = s.tcp_detached
    /\ udp_detached' = s.udp_detached
    /\ m_remote_ip' = s.m_remote_ip
    /\ m_tcp_rx' = s.m_tcp_rx
    /\ m_tcp_tx' = s.m_tcp_tx
    /\ m_udp_rx' = s.m_udp_rx
    /\ m_udp_tx' = s.m_udp_tx
    /\ published' = s.published
    /\ last' = l
    /\ evts' = o.ev
    /\ threads' = t

\* A step that runs a whole operation: the threads stand where they stood.
Commit(o, l) == CommitAt(o, l, threads)

\* ---------------------------------------------------------------- Init
\* The node after construction with no port parameters: no connection, no
\* topic, the empty active_connections message published.
Init ==
    /\ m_tcp_connections = [p \in Ports |-> NoTcp]
    /\ m_udp_connections = [p \in Ports |-> NoUdp]
    /\ tcp_detached = {}
    /\ udp_detached = {}
    /\ m_remote_ip = "host_a"
    /\ m_tcp_rx = {} /\ m_tcp_tx = {} /\ m_udp_rx = {} /\ m_udp_tx = {}
    /\ published = [tcp_pending |-> {}, tcp_active |-> {}, udp_active |-> {}]
    /\ last = Last("init", "TCP", 0, "none", "void", FALSE, NoTcp, NoTcp)
    /\ evts = <<>>
    /\ threads = [ros |-> Idle, loop |-> Idle]

\* ------------------------------------------------- actions: the services
\* An input is drawn only when the operation reads it: the set-up failure when
\* the add gets as far as creating a connection, the send result when a send
\* is attempted.

\* ros_node::service_add_tcp_connection
ServiceAddTcp(P) ==
    \E r \in {"SERVER", "CLIENT"}, port \in P, fail \in ServerSetupFailures :
        /\ r = "CLIENT" => fail \in ClientSetupFailures
        /\ IF m_tcp_connections[port].live THEN fail = "none"
                                           ELSE Alive(State) < MaxAlive
        /\ LET o == add_tcp_connection(State, r, port, fail)
           IN Commit(o, Last("add_tcp", "TCP", port, <<r, fail>>, o.ret, TRUE,
                             m_tcp_connections[port], o.s.m_tcp_connections[port]))

\* ros_node::service_add_udp_connection
ServiceAddUdp(P) ==
    \E port \in P, fail \in UdpSetupFailures :
        /\ IF m_udp_connections[port].live THEN fail = "none"
                                           ELSE Alive(State) < MaxAlive
        /\ LET o == add_udp_connection(State, port, fail)
           IN Commit(o, Last("add_udp", "UDP", port, fail, o.ret, TRUE,
                             m_udp_connections[port], o.s.m_udp_connections[port]))

\* The object a removed entry held, as the removal left it.
Removed(type, port) ==
    IF type = "TCP"
    THEN IF m_tcp_connections[port].live
         THEN disconnect(m_tcp_connections[port]).c ELSE NoTcp
    ELSE IF m_udp_connections[port].live
         THEN udp_disconnect(m_udp_connections[port]) ELSE NoUdp

\* ros_node::service_remove_connection
ServiceRemove(P) ==
    \E type \in protocol, port \in P :
        LET o == remove_connection(State, type, port)
        IN Commit(o, Last("remove", type, port, "none", o.ret, TRUE,
                          IF type = "TCP" THEN m_tcp_connections[port]
                                          ELSE m_udp_connections[port],
                          Removed(type, port)))

\* ros_node::service_remove_all_connections
ServiceRemoveAll ==
    LET o == remove_all_connections(State)
    IN Commit(o, Last("remove_all", "TCP", 0, "none", o.ret, TRUE, NoTcp, NoTcp))

\* ros_node::service_set_remote_host
ServiceSetRemoteHost ==
    \E remote_host \in HostNames :
        LET o == set_remote_host(State, remote_host)
        IN Commit(o, Last("set_remote_host", "TCP", 0, remote_host, o.ret, TRUE,
                          NoTcp, NoTcp))

\* The object of a port after a transmit.
Transmitted(type, port, error) ==
    IF type = "TCP"
    THEN IF m_tcp_connections[port].live
         THEN tx(m_tcp_connections[port], error).c ELSE NoTcp
    ELSE m_udp_connections[port]

\* Whether a transmit on the key gets as far as the send.
Sends(type, port) ==
    IF type = "TCP"
    THEN m_tcp_connections[port].live
         /\ m_tcp_connections[port].m_status = "CONNECTED"
    ELSE m_udp_connections[port].live

\* ros_node::service_tcp_tx / ros_node::callback_udp_tx
ServiceTx(P) ==
    \E type \in protocol, port \in P, error \in SendResults :
        /\ ~Sends(type, port) => error = "success"
        /\ type = "UDP" => error \in UdpSendResults
        /\ LET o == service_tx(State, type, port, error)
           IN Commit(o, Last("tx", type, port, error, o.ret, TRUE,
                             IF type = "TCP" THEN m_tcp_connections[port]
                                             ELSE m_udp_connections[port],
                             Transmitted(type, port, error)))

\* ----------------------------------------- actions: the transport layer
\* The transport performs a waiting operation; its completion is queued.
Transport(s, op, type, ref, arg, pre, post) ==
    Commit(Outcome(s, "void", <<>>),
           Last(op, type, pre.m_local_port, arg, "void", ref[1] = "map", pre, post))

\* A peer connects to the listening acceptor (the accepted stream becomes the
\* connection's socket), or the accept fails.
TransportAccept ==
    \E ref \in TcpRefs, result \in AcceptResults \ {"operation_aborted"} :
        LET c == TcpOf(ref)
            c1 == [c EXCEPT !.accept_op = result,
                            !.socket_open = (result = "success")]
        IN /\ c.accept_op = "waiting"
           /\ Transport(PutTcp(State, ref, c1), "transport_accept", "TCP", ref,
                        result, c, c1)

\* The connect attempt of a client succeeds or fails.
TransportConnect ==
    \E ref \in TcpRefs :
        LET c == TcpOf(ref)
            c1 == [c EXCEPT !.connect_op = "completed"]
        IN /\ c.connect_op = "waiting"
           /\ Transport(PutTcp(State, ref, c1), "transport_connect", "TCP", ref,
                        "completed", c, c1)

\* Bytes arrive on the stream, the peer closes it, or the read fails.
TransportRead ==
    \E ref \in TcpRefs :
        LET c == TcpOf(ref)
            c1 == [c EXCEPT !.read_op = "completed"]
        IN /\ c.read_op = "waiting"
           /\ Transport(PutTcp(State, ref, c1), "transport_read", "TCP", ref,
                        "completed", c, c1)

\* A datagram arrives from the remote host or from a third party
\* (async_receive_from stores its sender in m_remote_endpoint), or the
\* receive fails.
TransportUdpReceive ==
    \E ref \in UdpRefs, result \in UdpRxResults \ {"operation_aborted"},
       sender \in {m_remote_ip, "host_x"} :
        LET u == UdpOf(ref)
            u1 == [u EXCEPT !.rx_op = result,
                            !.m_remote_endpoint =
                                IF result = "success" THEN sender ELSE @]
        IN /\ u.rx_op = "waiting"
           /\ result # "success" => sender = "host_x"
           /\ Transport(PutUdp(State, ref, u1), "transport_udp_receive", "UDP",
                        ref, result, u, u1)

\* --------------------------------------------- actions: the event loop
\* The loop runs the handler of a queued completion: the object takes its new
\* state, then the callbacks it raised run through the driver.
RunTcpHandler(op, ref, error, res) ==
    LET o == Outcome(Dispatch(PutTcp(State, ref, res.c), res.ev), res.ret, res.ev)
    IN Commit(o, Last(op, "TCP", TcpOf(ref).m_local_port, error, res.ret,
                      ref[1] = "map", TcpOf(ref), res.c))

\* The error code a queued completion hands to its handler.
Carries(op, error) ==
    IF op = "operation_aborted" THEN error = "operation_aborted"
    ELSE op = "completed" /\ error # "operation_aborted"

RunAcceptCallback ==
    \E ref \in TcpRefs :
        LET c == TcpOf(ref)
        IN /\ c.accept_op \in AcceptResults
           /\ RunTcpHandler("accept_callback", ref, c.accept_op,
                  accept_callback([c EXCEPT !.accept_op = "none"], c.accept_op))

RunConnectCallback ==
    \E ref \in TcpRefs, error \in ConnectResults :
        LET c == TcpOf(ref)
        IN /\ Carries(c.connect_op, error)
           /\ RunTcpHandler("connect_callback", ref, error,
                  connect_callback([c EXCEPT !.connect_op = "none"], error))

RunRxCallback ==
    \E ref \in TcpRefs, error \in ReadResults :
        LET c == TcpOf(ref)
        IN /\ Carries(c.read_op, error)
           /\ RunTcpHandler("rx_callback", ref, error,
                  rx_callback([c EXCEPT !.read_op = "none"], error))

RunUdpRxCallback ==
    \E ref \in UdpRefs :
        LET u == UdpOf(ref)
            res == udp_rx_callback([u EXCEPT !.rx_op = "none"], u.rx_op)
            o == Outcome(Dispatch(PutUdp(State, ref, res.c), res.ev),
                         res.ret, res.ev)
        IN /\ u.rx_op \in UdpRxResults
           /\ Commit(o, Last("udp_rx_callback", "UDP", u.m_local_port, u.rx_op,
                             res.ret, ref[1] = "map", u, res.c))

\* ------------------------------------------------------- specifications
\* Spec: every service is called with the one port of OnePort, so a TCP and a
\* UDP connection share it.
Next ==
    \/ ServiceAddTcp(OnePort)
    \/ ServiceAddUdp(OnePort)
    \/ ServiceRemove(OnePort)
    \/ ServiceRemoveAll
    \/ ServiceSetRemoteHost
    \/ ServiceTx(OnePort)
    \/ TransportAccept
    \/ TransportConnect
    \/ TransportRead
    \/ TransportUdpReceive
    \/ RunAcceptCallback
    \/ RunConnectCallback
    \/ RunRxCallback
    \/ RunUdpRxCallback

Spec == Init /\ [][Next]_vars

\* ------------------------------------- one tcp_connection and its owner
\* SpecConnection: one tcp_connection object, its three callbacks attached,
\* whose owner calls the public methods start_server, start_client,
\* disconnect and tx in any order while the transport performs its operations
\* and the loop delivers their completions.  The callbacks it raises are
\* recorded in evts; nothing erases the object.  The owner starts a connection
\* it has disconnected only after the loop has delivered the completions that
\* were outstanding at the disconnect.
InitConnection ==
    /\ m_tcp_connections =
           [p \in Ports |-> IF p \in OnePort
                            THEN attach_callbacks(new_tcp_connection(p))
                            ELSE NoTcp]
    /\ m_udp_connections = [p \in Ports |-> NoUdp]
    /\ tcp_detached = {}
    /\ udp_detached = {}
    /\ m_remote_ip = "host_a"
    /\ m_tcp_rx = {} /\ m_tcp_tx = {} /\ m_udp_rx = {} /\ m_udp_tx = {}
    /\ published = [tcp_pending |-> {}, tcp_active |-> {}, udp_active |-> {}]
    /\ last = Last("init", "TCP", 0, "none", "void", FALSE, NoTcp, NoTcp)
    /\ evts = <<>>
    /\ threads = [ros |-> Idle, loop |-> Idle]

\* A method of the object ran: the object takes its new state and the
\* callbacks it raised are recorded.
Method(op, ref, arg, res) ==
    Commit(Outcome(PutTcp(State, ref, res.c), res.ret, res.ev),
           Last(op, "TCP", TcpOf(ref).m_local_port, arg, res.ret, TRUE,
                TcpOf(ref), res.c))

\* tcp_connection::start_server / tcp_connection::start_client, called by the
\* owner.  The set-up failure is drawn when the call gets as far as the
\* set-up of a closed socket.
OwnerStart ==
    \E ref \in TcpRefs, r \in {"SERVER", "CLIENT"}, fail \in ServerSetupFailures :
        LET c == TcpOf(ref)
        IN /\ r = "CLIENT" => fail \in ClientSetupFailures
           /\ (\/ c.m_status # "DISCONNECTED"
               \/ (r = "SERVER" /\ c.acceptor_open)
               \/ (r = "CLIENT" /\ c.socket_open)) => fail = "none"
           /\ c.closed => ~TcpHasOps(c)
           /\ Method("start", ref, <<r, fail>>,
                     IF r = "SERVER" THEN start_server(c, fail)
                                     ELSE start_client(c, fail))

\* tcp_connection::disconnect, called by the owner.
OwnerDisconnect ==
    \E ref \in TcpRefs :
        Method("disconnect", ref, "none", disconnect(TcpOf(ref)))

\* tcp_connection::tx, called by the owner.  The send result is drawn when a
\* send is attempted.
OwnerTx ==
    \E ref \in TcpRefs, error \in SendResults :
        /\ TcpOf(ref).m_status # "CONNECTED" => error = "success"
        /\ Method("tx", ref, error, tx(TcpOf(ref), error))

\* The loop runs the handler of a queued completion of the object.
LoopAcceptCallback ==
    \E ref \in TcpRefs :
        LET c == TcpOf(ref)
        IN /\ c.accept_op \in AcceptResults
           /\ Method("accept_callback", ref, c.accept_op,
                     accept_callback([c EXCEPT !.accept_op = "none"], c.accept_op))

LoopConnectCallback ==
    \E ref \in TcpRefs, error \in ConnectResults :
        LET c == TcpOf(ref)
        IN /\ Carries(c.connect_op, error)
           /\ Method("connect_callback", ref, error,
                     connect_callback([c EXCEPT !.connect_op = "none"], error))

LoopRxCallback ==
    \E ref \in TcpRefs, error \in ReadResults :
        LET c == TcpOf(ref)
        IN /\ Carries(c.read_op, error)
           /\ Method("rx_callback", ref, error,
                     rx_callback([c EXCEPT !.read_op = "none"], error))

NextConnection ==
    \/ OwnerStart
    \/ OwnerDisconnect
    \/ OwnerTx
    \/ TransportAccept
    \/ TransportConnect
    \/ TransportRead
    \/ LoopAcceptCallback
    \/ LoopConnectCallback
    \/ LoopRxCallback

SpecConnection == InitConnection /\ [][NextConnection]_vars

\* ------------------------------------- one udp_connection and its owner
\* SpecDatagram: one udp_connection object as its constructor leaves it
\* (socket open and bound, no receive outstanding, no callback attached),
\* whose owner calls the public methods attach_rx_callback, connect,
\* disconnect and tx in any order while datagrams arrive and the loop
\* delivers the completions of the receive.  The callbacks it raises are
\* recorded in evts.  connect is called while no receive is outstanding.
InitDatagram ==
    /\ m_tcp_connections = [p \in Ports |-> NoTcp]
    /\ m_udp_connections =
           [p \in Ports |-> IF p \in OnePort
                            THEN new_udp_connection(p, "host_a")
                            ELSE NoUdp]
    /\ tcp_detached = {}
    /\ udp_detached = {}
    /\ m_remote_ip = "host_a"
    /\ m_tcp_rx = {} /\ m_tcp_tx = {} /\ m_udp_rx = {} /\ m_udp_tx = {}
    /\ published = [tcp_pending |-> {}, tcp_active |-> {}, udp_active |-> {}]
    /\ last = Last("init", "UDP", 0, "none", "void", FALSE, NoUdp, NoUdp)
    /\ evts = <<>>
    /\ threads = [ros |-> Idle, loop |-> Idle]

\* A method of the object ran: the object takes its new state and the
\* callbacks it raised are recorded.
UdpMethod(op, ref, arg, res) ==
    Commit(Outcome(PutUdp(State, ref, res.c), res.ret, res.ev),
           Last(op, "UDP", UdpOf(ref).m_local_port, arg, res.ret, TRUE,
                UdpOf(ref), res.c))

\* udp_connection::attach_rx_callback, called by the owner.
OwnerAttachRxCallback ==
    \E ref \in UdpRefs :
        UdpMethod("attach_rx_callback", ref, "none",
                  Result(udp_attach_rx_callback(UdpOf(ref)), <<>>, "void"))

\* udp_connection::connect, called by the owner.
OwnerUdpConnect ==
    \E ref \in UdpRefs :
        /\ UdpOf(ref).rx_op = "none"
        /\ UdpMethod("udp_connect", ref, "none",
                     Result(udp_connect(UdpOf(ref)), <<>>, "void"))

\* udp_connection::disconnect, called by the owner.
OwnerUdpDisconnect ==
    \E ref \in UdpRefs :
        UdpMethod("udp_disconnect", ref, "none",
                  Result(udp_disconnect(UdpOf(ref)), <<>>, "void"))

\* udp_connection::tx, called by the owner.
OwnerUdpTx ==
    \E ref \in UdpRefs, error \in UdpSendResults :
        /\ ~UdpOf(ref).socket_open => error = "success"
        /\ UdpMethod("udp_tx", ref, error,
                     Result(UdpOf(ref), <<>>, udp_tx(UdpOf(ref), error).ret))

\* The loop runs the handler of a queued completion of the receive.
LoopUdpRxCallback ==
    \E ref \in UdpRefs :
        LET u == UdpOf(ref)
        IN /\ u.rx_op \in UdpRxResults
           /\ UdpMethod("udp_rx_callback", ref, u.rx_op,
                        udp_rx_callback([u EXCEPT !.rx_op = "none"], u.rx_op))

NextDatagram ==
    \/ OwnerAttachRxCallback
    \/ OwnerUdpConnect
    \/ OwnerUdpDisconnect
    \/ OwnerUdpTx
    \/ TransportUdpReceive
    \/ LoopUdpRxCallback

SpecDatagram == InitDatagram /\ [][NextDatagram]_vars

\* ------------------------------------------ the node on its two threads
\* SpecThreads: ros_node::spin starts the driver's thread, which runs the
\* loop and with it every completion handler and the callbacks they raise,
\* and then serves the ROS callbacks on its own thread.  Nothing in ros_node
\* serialises the two.  A service handler is followed in two steps: the
\* call of the driver, then its work on the topic maps (add_connection_topics
\* or remove_connection_topics, and the publication); a completion handler
\* in two steps: the handler and the driver's part of the callbacks it
\* raises, then the adapter's callbacks, which work on the topic maps.  The
\* driver's own calls are taken as serialised with each other.  The services
\* followed are add_tcp_connection (which touches no topic map),
\* add_udp_connection and remove_connection.

\* The driver's part of the callbacks ev: a disconnect erases the entry.
RECURSIVE DriverPart(_, _)
DriverPart(s, ev) ==
    IF ev = <<>> THEN s
    ELSE DriverPart(IF Head(ev).type = "disconnected"
                    THEN EraseTcp(s, Head(ev).port) ELSE s,
                    Tail(ev))

\* The adapter's callbacks for ev, in order.
RECURSIVE AdapterCallbacks(_, _)
AdapterCallbacks(s, ev) ==
    IF ev = <<>> THEN s
    ELSE LET e == Head(ev)
             s1 == CASE e.type = "connected" -> callback_tcp_connected(s, e.port)
                      [] e.type = "disconnected" ->
                          callback_tcp_disconnected(s, e.port)
                      [] e.type = "rx" -> callback_rx(s, e.protocol, e.port)
         IN AdapterCallbacks(s1, Tail(ev))

\* ros_node::service_add_tcp_connection on the ROS thread.
RosAddsTcp ==
    /\ threads.ros.at = "idle"
    /\ ServiceAddTcp(OnePort)

\* ros_node::add_udp_connection up to the return of driver::add_udp_connection.
RosEntersAddUdp ==
    \E port \in OnePort, fail \in UdpSetupFailures :
        /\ threads.ros.at = "idle"
        /\ IF m_udp_connections[port].live THEN fail = "none"
                                           ELSE Alive(State) < MaxAlive
        /\ LET o == driver_add_udp_connection(State, port, fail)
           IN CommitAt(o, Last("add_udp", "UDP", port, fail, o.ret, TRUE,
                               m_udp_connections[port],
                               o.s.m_udp_connections[port]),
                       [threads EXCEPT !.ros =
                            IF o.ret = "true"
                            THEN Inside("maps", "add_udp", port, "UDP", <<>>)
                            ELSE Idle])

\* ros_node::remove_connection up to the return of driver::remove_connection.
RosEntersRemove ==
    \E type \in protocol, port \in OnePort :
        /\ threads.ros.at = "idle"
        /\ LET o == driver_remove_connection(State, type, port)
           IN CommitAt(o, Last("remove", type, port, "none", o.ret, TRUE,
                               IF type = "TCP" THEN m_tcp_connections[port]
                                               ELSE m_udp_connections[port],
                               Removed(type, port)),
                       [threads EXCEPT !.ros =
                            IF o.ret = "true"
                            THEN Inside("maps", "remove", port, type, <<>>)
                            ELSE Idle])

\* The rest of add_udp_connection or remove_connection: the topics of the
\* port are created or shut down, the lists are published.
RosLeaves ==
    /\ threads.ros.at = "maps"
    /\ LET t == threads.ros
           s1 == IF t.op = "add_udp"
                 THEN add_connection_topics(State, t.arg, t.port)
                 ELSE remove_connection_topics(State, t.arg, t.port)
       IN CommitAt(Outcome(publish_active_connections(s1), "true", <<>>),
                   Last("topics", t.arg, t.port, t.op, "true", FALSE,
                        NoTcp, NoTcp),
                   [threads EXCEPT !.ros = Idle])

\* The loop thread runs a completion handler: the object takes its new
\* state, the driver erases a connection that signals disconnected, and the
\* thread enters the adapter's callbacks when any was raised.
LoopEnters(op, type, ref, error, res, pre) ==
    LET s1 == IF type = "TCP" THEN PutTcp(State, ref, res.c)
                              ELSE PutUdp(State, ref, res.c)
    IN CommitAt(Outcome(DriverPart(s1, res.ev), res.ret, res.ev),
                Last(op, type, pre.m_local_port, error, res.ret,
                     ref[1] = "map", pre, res.c),
                [threads EXCEPT !.loop =
                     IF res.ev = <<>> THEN Idle
                     ELSE Inside("maps", op, pre.m_local_port, type, res.ev)])

LoopEntersAccept ==
    \E ref \in TcpRefs :
        LET c == TcpOf(ref)
        IN /\ threads.loop.at = "idle"
           /\ c.accept_op \in AcceptResults
           /\ LoopEnters("accept_callback", "TCP", ref, c.accept_op,
                  accept_callback([c EXCEPT !.accept_op = "none"], c.accept_op),
                  c)

LoopEntersConnect ==
    \E ref \in TcpRefs, error \in ConnectResults :
        LET c == TcpOf(ref)
        IN /\ threads.loop.at = "idle"
           /\ Carries(c.connect_op, error)
           /\ LoopEnters("connect_callback", "TCP", ref, error,
                  connect_callback([c EXCEPT !.connect_op = "none"], error), c)

LoopEntersRx ==
    \E ref \in TcpRefs, error \in ReadResults :
        LET c == TcpOf(ref)
        IN /\ threads.loop.at = "idle"
           /\ Carries(c.read_op, error)
           /\ LoopEnters("rx_callback", "TCP", ref, error,
                  rx_callback([c EXCEPT !.read_op = "none"], error), c)

LoopEntersUdpRx ==
    \E ref \in UdpRefs :
        LET u == UdpOf(ref)
        IN /\ threads.loop.at = "idle"
           /\ u.rx_op \in UdpRxResults
           /\ LoopEnters("udp_rx_callback", "UDP", ref, u.rx_op,
                  udp_rx_callback([u EXCEPT !.rx_op = "none"], u.rx_op), u)

\* The adapter's callbacks run (callback_tcp_connected, callback_tcp_disconnected,
\* callback_rx) and the handler returns.
LoopLeaves ==
    /\ threads.loop.at = "maps"
    /\ LET t == threads.loop
       IN CommitAt(Outcome(AdapterCallbacks(State, t.ev), "void", <<>>),
                   Last("callbacks", t.arg, t.port, t.op, "void", FALSE,
                        NoTcp, NoTcp),
                   [threads EXCEPT !.loop = Idle])

NextThreads ==
    \/ RosAddsTcp
    \/ RosEntersAddUdp
    \/ RosEntersRemove
    \/ RosLeaves
    \/ TransportAccept
    \/ TransportConnect
    \/ TransportRead
    \/ TransportUdpReceive
    \/ LoopEntersAccept
    \/ LoopEntersConnect
    \/ LoopEntersRx
    \/ LoopEntersUdpRx
    \/ LoopLeaves

SpecThreads == Init /\ [][NextThreads]_vars

\* --------------------------- one tcp_connection started beside the loop
\* SpecStart: the tcp_connection of SpecConnection, with the loop on a thread
\* of its own: start_server and start_client are followed in two steps, up
\* to the issue of the asynchronous accept or connect, and from the
\* assignment of the role to the return, and the loop thread may perform
\* and deliver the completion in between.  The owner calls one method at a
\* time.

\* tcp_connection::start_server up to the return of async_accept ("issued":
\* the call goes on).
start_server_issue(c, fail) ==
    IF c.m_status = "DISCONNECTED"
    THEN IF c.acceptor_open \/ fail = "open"
         THEN Result(c, <<>>, "threw")
         ELSE IF fail # "none"
         THEN Result([c EXCEPT !.acceptor_open = TRUE], <<>>, "threw")
         ELSE Result(async_accept([c EXCEPT !.acceptor_open = TRUE,
                                            !.closed = FALSE,
                                            !.announced = FALSE]),
                     <<>>, "issued")
    ELSE Result(c, <<>>, "false")

\* tcp_connection::start_client up to the return of async_connect.
start_client_issue(c, fail) ==
    IF c.m_status = "DISCONNECTED"
    THEN IF c.socket_open \/ fail = "open"
         THEN LET r == update_status(c, "DISCONNECTED", TRUE)
              IN Result(r.c, r.ev, "false")
         ELSE IF fail # "none"
         THEN LET r == update_status([c EXCEPT !.socket_open = TRUE],
                                     "DISCONNECTED", TRUE)
              IN Result(r.c, r.ev, "false")
         ELSE Result([c EXCEPT !.socket_open = TRUE, !.connect_op = "waiting",
                               !.closed = FALSE, !.announced = FALSE],
                     <<>>, "issued")
    ELSE Result(c, <<>>, "false")

\* The rest of start_server / start_client: m_role = r, update_status(PENDING),
\* return true.
start_finish(c, r) ==
    LET res == update_status([c EXCEPT !.m_role = r], "PENDING", TRUE)
    IN Result(res.c, res.ev, "true")

\* The owner calls start_server or start_client; the call stops after the
\* issue of the accept or connect, or returns before it.
OwnerIssues ==
    \E ref \in TcpRefs, r \in {"SERVER", "CLIENT"}, fail \in ServerSetupFailures :
        LET c == TcpOf(ref)
            res == IF r = "SERVER" THEN start_server_issue(c, fail)
                                   ELSE start_client_issue(c, fail)
        IN /\ threads.ros.at = "idle"
           /\ r = "CLIENT" => fail \in ClientSetupFailures
           /\ (\/ c.m_status # "DISCONNECTED"
               \/ (r = "SERVER" /\ c.acceptor_open)
               \/ (r = "CLIENT" /\ c.socket_open)) => fail = "none"
           /\ c.closed => ~TcpHasOps(c)
           /\ CommitAt(Outcome(PutTcp(State, ref, res.c), res.ret, res.ev),
                       Last("start", "TCP", c.m_local_port, <<r, fail>>,
                            res.ret, TRUE, c, res.c),
                       [threads EXCEPT !.ros =
                            IF res.ret = "issued"
                            THEN Inside("issued", "start", c.m_local_port, r, <<>>)
                            ELSE Idle])

\* The call goes on: the role and the status are assigned, it returns true.
OwnerFinishes ==
    \E ref \in TcpRefs :
        LET c == TcpOf(ref)
            res == start_finish(c, threads.ros.arg)
        IN /\ threads.ros.at = "issued"
           /\ c.m_local_port = threads.ros.port
           /\ CommitAt(Outcome(PutTcp(State, ref, res.c), res.ret, res.ev),
                       Last("start", "TCP", c.m_local_port,
                            <<threads.ros.arg, "none">>, res.ret, TRUE, c, res.c),
                       [threads EXCEPT !.ros = Idle])

\* disconnect and tx, called by the owner between two calls of start.
OwnerDisconnectsIdle ==
    /\ threads.ros.at = "idle"
    /\ OwnerDisconnect

OwnerTransmitsIdle ==
    /\ threads.ros.at = "idle"
    /\ OwnerTx

NextStart ==
    \/ OwnerIssues
    \/ OwnerFinishes
    \/ OwnerDisconnectsIdle
    \/ OwnerTransmitsIdle
    \/ TransportAccept
    \/ TransportConnect
    \/ TransportRead
    \/ LoopAcceptCallback
    \/ LoopConnectCallback
    \/ LoopRxCallback

SpecStart == InitConnection /\ [][NextStart]_vars

\* ------------------------------------------------------------ properties
\* The read results that mean the peer closed the stream.
PeerClosed == {"eof", "connection_reset", "connection_aborted"}
\* The completion handlers of a tcp_connection.
Handlers == {"accept_callback", "connect_callback", "rx_callback"}
\* The last step raised exactly one callback, of this type, with the port of
\* the connection the step acted on.
RaisedOnce(type) ==
    /\ Len(evts) = 1
    /\ evts[1].type = type
    /\ evts[1].protocol = "TCP"
    /\ evts[1].port = last.pre.m_local_port
\* The connection is back in its initial status and role.
Reset(c) == c.m_status = "DISCONNECTED" /\ c.m_role = "UNASSIGNED"

\* C1: an operator-initiated teardown of a TCP connection (remove, remove_all,
\* a successful set_remote_host) leaves the connection disconnected and
\* unassigned, erases the entry and raises no callback; no completion that the
\* loop delivers to a connection after its disconnect() raises a callback or
\* changes that status; no disconnected callback is ever raised by a
\* connection whose disconnect() was called.
C1_TeardownIsSilent ==
    /\ (last.op = "remove" /\ last.protocol = "TCP" /\ last.ret = "true") =>
           /\ Reset(last.post)
           /\ evts = <<>>
           /\ ~m_tcp_connections[last.port].live
    /\ (last.op = "remove_all"
            \/ (last.op = "set_remote_host" /\ last.ret = "true")) =>
           /\ evts = <<>>
           /\ \A p \in Ports : ~m_tcp_connections[p].live
    /\ \A c \in tcp_detached : c.closed => Reset(c)
    /\ (last.op \in Handlers /\ last.pre.closed) =>
           /\ evts = <<>>
           /\ Reset(last.post)
    /\ \A i \in DOMAIN evts :
           evts[i].type = "disconnected" => ~evts[i].by.closed

\* C1 witness: the loop delivers the aborted read of a connection that was
\* connected and then removed.
C1_AbortedReadDelivered ==
    /\ last.op = "rx_callback"
    /\ last.arg = "operation_aborted"
    /\ last.pre.closed
    /\ last.pre.announced

\* C2: when the read of a connected connection with an open socket completes
\* with eof, connection_reset or connection_aborted, the connection becomes
\* disconnected and unassigned, the disconnected callback is raised exactly
\* once with the local port, and no read is armed.
C2_PeerCloseDisconnects ==
    (/\ last.op = "rx_callback"
     /\ last.arg \in PeerClosed
     /\ last.pre.socket_open
     /\ last.pre.m_status = "CONNECTED") =>
        /\ Reset(last.post)
        /\ RaisedOnce("disconnected")
        /\ last.post.read_op = "none"

\* C2 witness: a connected connection whose read ended with connection_reset.
C2_ResetRead ==
    /\ last.op = "rx_callback"
    /\ last.arg = "connection_reset"
    /\ last.pre.socket_open
    /\ last.pre.m_status = "CONNECTED"

C4_ConnectedBeforeReceive ==
    /\ (/\ last.op \in {"accept_callback", "connect_callback"}
        /\ last.arg = "success"
        /\ last.pre.socket_open) =>
           /\ RaisedOnce("connected")
           /\ ~last.pre.announced
           /\ last.post.announced
    /\ \A i \in DOMAIN evts :
           /\ evts[i].type = "connected" =>
                  /\ last.op \in {"accept_callback", "connect_callback"}
                  /\ last.arg = "success"
           /\ (evts[i].type = "rx" /\ evts[i].protocol = "TCP") =>
                  evts[i].by.announced

\* C4 witness: a client-role connection delivers received bytes.
C4_ClientReceives ==
    /\ last.op = "rx_callback"
    /\ last.arg = "success"
    /\ last.pre.m_role = "CLIENT"
    /\ Len(evts) = 1
    /\ evts[1].type = "rx"

\* C5 as stated: the disconnected callback is raised only by a connection
\* that raised its connected callback since its start.
C5_DisconnectedOnlyAfterConnected ==
    \A i \in DOMAIN evts :
        evts[i].type = "disconnected" => evts[i].by.announced

\* C6: a transmit on a TCP connection that is not connected returns false,
\* raises no callback and leaves the connection as it was; a transmit on a
\* key with no connection returns false and raises no callback.
C6_TransmitRefused ==
    /\ (/\ last.op = "tx"
        /\ last.protocol = "TCP"
        /\ last.pre.live
        /\ last.pre.m_status # "CONNECTED") =>
           /\ last.ret = "false"
           /\ evts = <<>>
           /\ m_tcp_connections[last.port] = last.pre
    /\ (last.op = "tx" /\ ~last.pre.live) =>
           /\ last.ret = "false"
           /\ evts = <<>>
           /\ last.post = last.pre

\* C6 witness: a transmit on a pending connection.
C6_TransmitOnPending ==
    /\ last.op = "tx"
    /\ last.protocol = "TCP"
    /\ last.pre.live
    /\ last.pre.m_status = "PENDING"

C8_AddLeavesPending ==
    /\ (last.op = "add_tcp" /\ last.ret = "true") =>
           LET c == m_tcp_connections[last.port] IN
           /\ c.live
           /\ c.m_status = "PENDING"
           /\ c.m_role = last.arg[1]
           /\ last.port \in published.tcp_pending
           /\ last.port \notin published.tcp_active
           /\ c.accept_op = (IF c.m_role = "SERVER" THEN "waiting" ELSE "none")
           /\ c.connect_op = (IF c.m_role = "CLIENT" THEN "waiting" ELSE "none")
           /\ c.read_op = "none"
           /\ evts = <<>>
    /\ (last.op # "init" /\ last.protocol = "TCP"
            /\ last.post.m_status = "CONNECTED"
            /\ last.pre.m_status # "CONNECTED") =>
           /\ last.op = (IF last.pre.m_role = "SERVER" THEN "accept_callback"
                                                       ELSE "connect_callback")
           /\ last.arg = "success"
           /\ last.pre.m_status = "PENDING"

\* C8 witness: the accept of an added server-role connection was delivered
\* and the port is published as connected.
C8_AcceptDelivered ==
    /\ last.op = "accept_callback"
    /\ last.arg = "success"
    /\ last.post.m_status = "CONNECTED"
    /\ last.in
    /\ last.port \in published.tcp_active

\* C9: an add_tcp on a port that has a TCP connection, and an add_udp on a
\* port that has a UDP connection, return false, raise no callback and change
\* nothing of the driver's collections, the connections or the adapter.
C9_DuplicateAddRefused ==
    [][((last'.op = "add_tcp" /\ m_tcp_connections[last'.port].live)
            \/ (last'.op = "add_udp" /\ m_udp_connections[last'.port].live)) =>
           /\ last'.ret = "false"
           /\ evts' = <<>>
           /\ UNCHANGED prog]_vars

\* C9 witness: an add_tcp was refused on a port that a TCP and a UDP
\* connection hold at the same time.
C9_SamePortBothProtocols ==
    /\ last.op = "add_tcp"
    /\ last.ret = "false"
    /\ last.pre.live
    /\ m_tcp_connections[last.port].live
    /\ m_udp_connections[last.port].live

\* C10 as stated: an add_tcp with the server role whose acceptor set-up fails
\* returns false and inserts nothing.
C10_ServerStartFailureReturnsFalse ==
    (/\ last.op = "add_tcp"
     /\ ~last.pre.live
     /\ last.arg[1] = "SERVER"
     /\ last.arg[2] # "none") =>
        /\ last.ret = "false"
        /\ ~m_tcp_connections[last.port].live

\* C11: after a successful remove the removed connection holds no open socket
\* or acceptor and its key is free: an add on the key whose socket set-up does
\* not fail returns true, also while the removed connection's completion is
\* still on the loop; every add on a free key whose set-up does not fail
\* returns true.
C11_KeyFreeAfterRemove ==
    /\ (last.op = "remove" /\ last.ret = "true" /\ last.protocol = "TCP") =>
           /\ ~last.post.socket_open
           /\ ~last.post.acceptor_open
           /\ ~m_tcp_connections[last.port].live
           /\ \A r \in {"SERVER", "CLIENT"} :
                  add_tcp_connection(State, r, last.port, "none").ret = "true"
    /\ (last.op = "remove" /\ last.ret = "true" /\ last.protocol = "UDP") =>
           /\ ~last.post.socket_open
           /\ ~m_udp_connections[last.port].live
           /\ add_udp_connection(State, last.port, "none").ret = "true"
    /\ (last.op = "add_tcp" /\ ~last.pre.live /\ last.arg[2] = "none") =>
           last.ret = "true"
    /\ (last.op = "add_udp" /\ ~last.pre.live /\ last.arg = "none") =>
           last.ret = "true"
    /\ \A c \in tcp_detached : c.closed => ~c.socket_open /\ ~c.acceptor_open
    /\ \A u \in udp_detached : ~u.socket_open

\* C11 witness: a TCP connection was added on a port while the aborted read of
\* the connected connection removed from that port is still on the loop.
C11_ReaddedBeforeAbortDelivered ==
    /\ last.op = "add_tcp"
    /\ last.ret = "true"
    /\ \E c \in tcp_detached :
           /\ c.closed
           /\ c.m_local_port = last.port
           /\ c.read_op = "operation_aborted"

\* C12: in every state, a remove on a key that has no connection returns
\* false, raises no callback and changes nothing, and so it did whenever it
\* was called; a remove_all while the driver holds no connection raises no
\* callback and changes nothing.
C12_RemoveOfNothing ==
    /\ \A type \in protocol, p \in Ports :
           ~(IF type = "TCP" THEN m_tcp_connections[p].live
                             ELSE m_udp_connections[p].live) =>
               LET o == remove_connection(State, type, p)
               IN /\ o.ret = "false"
                  /\ o.ev = <<>>
                  /\ o.s = State
    /\ (\A p \in Ports : /\ ~m_tcp_connections[p].live
                         /\ ~m_udp_connections[p].live) =>
           LET o == remove_all_connections(State)
           IN /\ o.ev = <<>>
              /\ o.s = State
    /\ (last.op = "remove" /\ ~last.pre.live) =>
           /\ last.ret = "false"
           /\ evts = <<>>
           /\ last.post = last.pre

\* C12 witness: a remove found no connection on a key that had one before
\* (its removed connection is still on the loop).
C12_RemovedTwice ==
    /\ last.op = "remove"
    /\ last.ret = "false"
    /\ last.protocol = "UDP"
    /\ \E u \in udp_detached : u.m_local_port = last.port

\* C13: after a successful set_remote_host both collections, the published
\* lists and the topics are empty, the remote address is the new one, no
\* callback was raised, every connection the call closed has its sockets
\* closed and is disconnected and unassigned, and no completion delivered to
\* a closed connection raises a connected or disconnected callback.
C13_SetRemoteClosesAll ==
    /\ (last.op = "set_remote_host" /\ last.ret = "true") =>
           /\ \A p \in Ports : /\ ~m_tcp_connections[p].live
                               /\ ~m_udp_connections[p].live
           /\ published = [tcp_pending |-> {}, tcp_active |-> {},
                           udp_active |-> {}]
           /\ m_tcp_rx = {} /\ m_tcp_tx = {} /\ m_udp_rx = {} /\ m_udp_tx = {}
           /\ m_remote_ip = last.arg
           /\ evts = <<>>
           /\ \A c \in tcp_detached :
                  c.closed => Reset(c) /\ ~c.socket_open /\ ~c.acceptor_open
           /\ \A u \in udp_detached : ~u.socket_open
    /\ \A i \in DOMAIN evts :
           evts[i].type \in {"connected", "disconnected"} =>
               evts[i].by.socket_open \/ ~evts[i].by.closed

\* C13 witness: a set_remote_host to another address closed a TCP and a UDP
\* connection whose completions are still on the loop.
C13_SetRemoteClosedBoth ==
    /\ last.op = "set_remote_host"
    /\ last.ret = "true"
    /\ m_remote_ip = "host_b"
    /\ \E c \in tcp_detached : c.closed /\ c.announced
    /\ udp_detached # {}

\* C14: in every state, a set_remote_host with an address that cannot be
\* resolved returns false, raises no callback and changes nothing
\* (connections, collections, remote address, topics, published lists), and
\* so it did whenever it was called.
C14_UnresolvableChangesNothing ==
    /\ LET o == set_remote_host(State, "unresolvable")
       IN /\ o.ret = "false"
          /\ o.ev = <<>>
          /\ o.s = State
    /\ (last.op = "set_remote_host" /\ last.arg = "unresolvable") =>
           /\ last.ret = "false"
           /\ evts = <<>>

\* C14 witness: an unresolvable address was refused while a connected TCP
\* connection and a UDP connection were held.
C14_RefusedWithConnections ==
    /\ last.op = "set_remote_host"
    /\ last.ret = "false"
    /\ \E p \in Ports : /\ m_tcp_connections[p].live
                        /\ m_tcp_connections[p].m_status = "CONNECTED"
    /\ \E p \in Ports : m_udp_connections[p].live

\* C15: when the connect of a pending client-role connection completes with
\* an error on its open socket, the connection becomes disconnected and
\* unassigned, no connect is issued again, and the port of a connection the
\* driver held is afterwards in neither the pending nor the connected list.
C15_ConnectFailureEndsClient ==
    (/\ last.op = "connect_callback"
     /\ last.arg = "error"
     /\ last.pre.socket_open
     /\ last.pre.m_status = "PENDING") =>
        /\ Reset(last.post)
        /\ last.post.connect_op = "none"
        /\ last.post.accept_op = "none"
        /\ last.post.read_op = "none"
        /\ last.in =>
               /\ last.port \notin published.tcp_pending
               /\ last.port \notin published.tcp_active
               /\ last.port \notin p_pending_tcp_connections(State)
               /\ last.port \notin p_active_tcp_connections(State)

\* C15 witness: the connect of a client-role connection held by the driver
\* failed.
C15_ConnectFailed ==
    /\ last.op = "connect_callback"
    /\ last.arg = "error"
    /\ last.pre.socket_open
    /\ last.pre.m_status = "PENDING"
    /\ last.pre.m_role = "CLIENT"
    /\ last.in

\* C16 as stated: a UDP transmit that is sent goes to the remote address the
\* connection was created with (the driver's remote address: a
\* set_remote_host removes every connection created with the old one).
C16_TransmitTargetFixed ==
    (/\ last.op = "tx"
     /\ last.protocol = "UDP"
     /\ last.pre.live
     /\ last.ret = "true") =>
        udp_tx(last.pre, last.arg).target = m_remote_ip

\* C17: a receive completion without error on an open UDP socket raises the
\* receive callback exactly once, with UDP, the local port and the sender the
\* transport stored for that datagram, before any receive is issued, and then
\* leaves exactly one receive waiting; no connection ever has two receives
\* outstanding.
C17_DatagramDelivered ==
    /\ (/\ last.op = "udp_rx_callback"
        /\ last.arg = "success"
        /\ last.pre.socket_open) =>
           /\ Len(evts) = 1
           /\ evts[1].type = "rx"
           /\ evts[1].protocol = "UDP"
           /\ evts[1].port = last.pre.m_local_port
           /\ evts[1].by.m_remote_endpoint = last.pre.m_remote_endpoint
           /\ evts[1].by.rx_op = "none"
           /\ last.post.rx_op = "waiting"
    /\ \A p \in Ports : m_udp_connections[p].rx_op # "overlapping"
    /\ \A u \in udp_detached : u.rx_op # "overlapping"

\* C17 witness: the datagram of a third-party sender was delivered.
C17_ThirdPartyDatagram ==
    /\ last.op = "udp_rx_callback"
    /\ last.arg = "success"
    /\ last.pre.socket_open
    /\ last.pre.m_remote_endpoint = "host_x"
    /\ last.in

\* C18: a receive completion delivered to a UDP connection whose socket was
\* closed (by remove, remove_all or set_remote_host) raises no callback and
\* issues no receive, whether it reports operation_aborted or a datagram
\* received before the close; no callback is ever raised by a UDP connection
\* with a closed socket.
C18_NoReceiveAfterDisconnect ==
    /\ (last.op = "udp_rx_callback" /\ ~last.pre.socket_open) =>
           /\ evts = <<>>
           /\ last.post.rx_op = "none"
           /\ ~last.post.socket_open
    /\ \A i \in DOMAIN evts :
           evts[i].protocol = "UDP" => evts[i].by.socket_open

\* C18 witness: a datagram received before the remove is delivered after it.
C18_DatagramQueuedAtClose ==
    /\ last.op = "udp_rx_callback"
    /\ last.arg = "success"
    /\ ~last.pre.socket_open

\* C19: a completion delivered to a TCP connection after its disconnect()
\* changes nothing of the connection but the completion it consumes: status,
\* role and sockets stay, no callback is raised, no accept, connect or read
\* is issued.
C19_LateCompletionDiscarded ==
    (last.op \in Handlers /\ last.pre.closed) =>
        /\ evts = <<>>
        /\ last.ret = "void"
        /\ last.post =
               [last.pre EXCEPT
                    !.accept_op = IF last.op = "accept_callback"
                                  THEN "none" ELSE @,
                    !.connect_op = IF last.op = "connect_callback"
                                   THEN "none" ELSE @,
                    !.read_op = IF last.op = "rx_callback" THEN "none" ELSE @]

\* C19 witness: an accept that had succeeded before the connection was
\* removed is delivered afterwards.
C19_AcceptDeliveredAfterClose ==
    /\ last.op = "accept_callback"
    /\ last.arg = "success"
    /\ last.pre.closed

\* C20 as stated: when the accept of a pending server-role connection that
\* was not disconnected completes with an error, an accept is waiting again,
\* the status is still pending and no callback was raised.
C20_AcceptErrorRearms ==
    (/\ last.op = "accept_callback"
     /\ last.arg = "error"
     /\ ~last.pre.closed
     /\ last.pre.m_status = "PENDING"
     /\ last.pre.m_role = "SERVER") =>
        /\ last.post.accept_op = "waiting"
        /\ last.post.m_status = "PENDING"
        /\ evts = <<>>

\* The changes of status a tcp_connection may make.
Edges == {<<"DISCONNECTED", "PENDING">>, <<"PENDING", "CONNECTED">>,
          <<"PENDING", "DISCONNECTED">>, <<"CONNECTED", "DISCONNECTED">>}

C22_ReadErrorIsFatal ==
    (/\ last.op = "rx_callback"
     /\ last.arg = "other_error"
     /\ last.pre.socket_open) =>
        /\ last.ret = "threw"
        /\ evts = <<>>
        /\ last.post = [last.pre EXCEPT !.read_op = "none"]
        /\ last.in => m_tcp_connections[last.port] = last.post

\* C22 witness: the read of a connected connection held by the driver failed
\* with such an error.
C22_ReadFailed ==
    /\ last.op = "rx_callback"
    /\ last.arg = "other_error"
    /\ last.pre.socket_open
    /\ last.pre.m_status = "CONNECTED"
    /\ last.in

\* C23: when the receive of a UDP connection completes with an error other
\* than operation_aborted, an exception leaves the handler, no callback is
\* raised and no receive is issued; when it completes with operation_aborted
\* the handler returns without an exception, raises no callback and issues no
\* receive.
C23_UdpReceiveErrorIsFatal ==
    /\ (last.op = "udp_rx_callback" /\ last.arg = "other_error") =>
           /\ last.ret = "threw"
           /\ evts = <<>>
           /\ last.post = [last.pre EXCEPT !.rx_op = "none"]
    /\ (last.op = "udp_rx_callback" /\ last.arg = "operation_aborted") =>
           /\ last.ret = "void"
           /\ evts = <<>>
           /\ last.post = [last.pre EXCEPT !.rx_op = "none"]

\* C23 witness: the receive of a UDP connection held by the driver failed.
C23_UdpReceiveFailed ==
    /\ last.op = "udp_rx_callback"
    /\ last.arg = "other_error"
    /\ last.pre.socket_open
    /\ last.in

\* C24 as stated: a start_client on a disconnected connection whose socket
\* set-up fails returns false and leaves the connection as it was before the
\* call: disconnected, unassigned, its socket closed and no operation
\* outstanding.
C24_FailedStartClientRolledBack ==
    (/\ last.op = "start"
     /\ last.arg[1] = "CLIENT"
     /\ last.arg[2] # "none"
     /\ last.pre.m_status = "DISCONNECTED") =>
        /\ last.ret = "false"
        /\ Reset(last.post)
        /\ ~last.post.socket_open
        /\ ~TcpHasOps(last.post)
        /\ evts = <<>>

\* C25: a start_server or start_client on a connection that is pending or
\* connected returns false, raises no callback and leaves the connection
\* exactly as it was: status, role, sockets and outstanding operations.
C25_StartWhileActiveRefused ==
    (/\ last.op = "start"
     /\ last.pre.m_status \in {"PENDING", "CONNECTED"}) =>
        /\ last.ret = "false"
        /\ evts = <<>>
        /\ last.post = last.pre

\* C25 witness: start_client was called on a connected client-role connection
\* whose read is waiting.
C25_StartOnConnected ==
    /\ last.op = "start"
    /\ last.arg[1] = "CLIENT"
    /\ last.pre.m_status = "CONNECTED"
    /\ last.pre.m_role = "CLIENT"
    /\ last.pre.read_op = "waiting"

\* C26 as stated, for a connection that was connected and came back to
\* disconnected by itself (its peer closed, or its transmit hit a broken
\* pipe): a start_server or start_client on it, with the local port free and
\* no failure of the transport in the set-up, returns true and leaves the
\* connection pending.
C26_DisconnectedCanStart ==
    (/\ last.op = "start"
     /\ last.arg[2] = "none"
     /\ last.pre.m_status = "DISCONNECTED"
     /\ last.pre.announced
     /\ ~last.pre.closed) =>
        /\ last.ret = "true"
        /\ last.post.m_status = "PENDING"

C29_CollectionsMatchLists ==
    /\ \A p \in Ports :
           m_tcp_connections[p].live =>
               m_tcp_connections[p].m_status \in {"PENDING", "CONNECTED"}
    /\ p_pending_tcp_connections(State) \cap p_active_tcp_connections(State) = {}
    /\ p_pending_tcp_connections(State) \cup p_active_tcp_connections(State)
           = {p \in Ports : m_tcp_connections[p].live}
    /\ p_active_udp_connections(State) = {p \in Ports : m_udp_connections[p].live}
    /\ published = [tcp_pending |-> p_pending_tcp_connections(State),
                    tcp_active |-> p_active_tcp_connections(State),
                    udp_active |-> p_active_udp_connections(State)]

\* C29 witness: a transmit hit a broken pipe and the connection, disconnected,
\* has left the collection while its read is still outstanding.
C29_BrokenPipeErased ==
    /\ last.op = "tx"
    /\ last.protocol = "TCP"
    /\ last.arg = "broken_pipe"
    /\ last.post.m_status = "DISCONNECTED"
    /\ ~m_tcp_connections[last.port].live
    /\ \E c \in tcp_detached : c.m_local_port = last.port /\ ~c.closed

C31_NoReceiveAfterDisconnected ==
    \A i \in DOMAIN evts :
        (evts[i].type = "rx" /\ evts[i].protocol = "TCP") =>
            ~(/\ evts[i].by.m_status = "DISCONNECTED"
              /\ evts[i].by.announced
              /\ ~evts[i].by.closed)

\* C32: the handler of a receive that completed without error on an open
\* socket never ends with the fatal error and always leaves a new receive
\* outstanding, whether or not a receive callback is attached.
C32_DatagramNeverFatal ==
    (/\ last.op = "udp_rx_callback"
     /\ last.arg = "success"
     /\ last.pre.socket_open) =>
        /\ last.ret # "threw"
        /\ last.post.rx_op = "waiting"

\* C33: between two steps of the node the ports with TCP rx and tx topics
\* are the ports of the driver's connected TCP connections (a pending port
\* has none), the ports with UDP rx and tx topics are the ports of its UDP
\* connections, and for each protocol the rx map and the tx map hold the
\* same ports.
C33_TopicsFollowConnections ==
    /\ m_tcp_rx = p_active_tcp_connections(State)
    /\ m_tcp_tx = m_tcp_rx
    /\ m_udp_rx = p_active_udp_connections(State)
    /\ m_udp_tx = m_udp_rx
    /\ p_pending_tcp_connections(State) \cap m_tcp_rx = {}

\* C33 witness: a TCP connection has just been added and is pending on a
\* port that has a UDP connection: the port has the UDP topics only.
C33_PendingBesideDatagram ==
    /\ last.op = "add_tcp"
    /\ last.ret = "true"
    /\ last.port \in p_pending_tcp_connections(State)
    /\ last.port \in p_active_udp_connections(State)
    /\ last.port \in m_udp_rx
    /\ last.port \notin m_tcp_tx

\* C34: the ROS thread and the driver's loop thread are never both at work
\* on the topic maps of one protocol: no callback of the adapter (tcp
\* connected, tcp disconnected, rx) runs while a service handler creates or
\* shuts down topics of that protocol.
C34_OneThreadInTopicMaps ==
    ~(/\ threads.ros.at = "maps"
      /\ threads.loop.at = "maps"
      /\ threads.ros.arg = threads.loop.arg)

\* C35: when start_server or start_client returns true on a connection whose
\* accept or connect completed and was handled while the call was between
\* the issue of the operation and the assignment of role and status, so
\* that the connection was connected on its established stream, the
\* connection is connected, not pending, and has the role it was started
\* with.
C35_CompletionDuringStartKept ==
    (/\ last.op = "start"
     /\ last.ret = "true"
     /\ last.pre.m_status = "CONNECTED"
     /\ last.pre.socket_open) =>
        /\ last.post.m_status = "CONNECTED"
        /\ last.post.m_role = last.arg[1]

====
